---- MODULE Spec2Model ----
(***************************************************************************)
(* A model of the concurrent containers cds_array (cds_array.h) and        *)
(* cds_vector (cds_vector.h).                                              *)
(*                                                                         *)
(* cds_array<T, N>: a buffer of N slots and one std::shared_mutex.  Every  *)
(* member function is modelled at the granularity of its lock operations   *)
(* and of its individual slot accesses, so that a missing or misplaced     *)
(* lock shows as an interleaving.                                          *)
(***************************************************************************)
EXTENDS Integers, FiniteSets, Sequences, TLC

\* ------------------------------------------------------------------ bounds
\* Template parameter N of cds_array<T, N>: the number of slots.
ArrLen == 2
\* Number of client threads.
NumThreads == 2
\* Element values are 0..MaxVal.
MaxVal == 1

Threads == 1..NumThreads
\* Two arrays; the number is the array's identity (its address).
Arrays == {1, 2}
Slots == 0..(ArrLen - 1)
\* Positions a caller may pass: every slot and the first position past the end.
Positions == 0..ArrLen
Values == 0..MaxVal
NoThread == 0
NoVal == -1
NoArr == 0
\* The number of calls of a thread whose script has no end.
Unbounded == -1
\* The number of calls in the script of a thread that runs a finite one.
MaxCalls == 2

VARIABLES
    buffer,   \* buffer[a][i]: slot i of array a                 (buffer_)
    wlock,    \* wlock[a]: the exclusive owner of a's mutex_, or NoThread
    rlock,    \* rlock[a]: the set of shared owners of a's mutex_
    pc,       \* pc[t]: where thread t is inside the member function it called
    call,     \* call[t]: the member function t is inside, and its arguments
    idx,      \* idx[t]: the iterator position of std::fill / std::swap_ranges
    tmp,      \* tmp[t]: the temporary of std::swap
    acc,      \* acc[t][i]: the value t last read/wrote at slot i through its accessor
    ret,      \* ret[t]: the value t's last at() gave its caller
    lastset,  \* lastset[t]: the set() t completed as its latest call, if any
    nswaps,   \* the number of swap calls that returned, modulo 2
    seen,     \* seen[t]: the value of the slot when t's at() released its lock
    ncalls    \* ncalls[t]: the calls t has still to make, or Unbounded

\* cds_vector<T, Allocator>: the three cursors of each vector, its allocator
\* and its mutex, and the memory the cursors point into.
VARIABLES
    vec,      \* vec[v]: vector v's life state, its start_, end_, end_of_storage_
              \* and allocator_, and the constructor, the elements and the
              \* other vector it was built from
    heap,     \* heap[p]: the memory cell at address p
    vret,     \* the outcome of the last operator[] call on a vector
    madeby,   \* madeby[p]: the allocator whose allocate() handed out cell p
    astate,   \* astate[al]: the calls allocator al has recorded (CountAllocatorState)
    vexc,     \* the exception a constructor last propagated, and its rollback
    vmutex,   \* vmutex[v]: the ownership of vector v's mutex_
    vdtor     \* the calls the last destructor made to its allocator, in order

avars == <<buffer, wlock, rlock, pc, call, idx, tmp, acc, ret, lastset, nswaps, seen,
          ncalls>>
vvars == <<vec, heap, vret, madeby, astate, vexc, vmutex, vdtor>>
vars == <<avars, vvars>>

\* ---------------------------------------------------------------- helpers
NoCall == [op |-> "none", arr |-> NoArr, other |-> NoArr, pos |-> 0, val |-> NoVal]
NoSet == [arr |-> NoArr, pos |-> 0, val |-> NoVal]
NoAcc == [i \in Slots |-> NoVal]

\* cds_array::size(): the template parameter N.
size == ArrLen

\* The bounds check written with > for >=.
OutOfRange_OffByOne(pos) == pos > size

\* The bounds check of at(), set() and of the accessors' at().
OutOfRange(pos) == pos >= size

\* std::shared_mutex: lock() succeeds when nobody owns the mutex,
\* lock_shared() when nobody owns it exclusively.
CanLockExclusive(a) == wlock[a] = NoThread /\ rlock[a] = {}
CanLockShared(a) == wlock[a] = NoThread

\* The contents the arrays are constructed with (cds_array(Ts... ts)):
\* slot i of array a holds (a - 1 + i) mod (MaxVal + 1), so the two arrays
\* differ in every slot.
Orig(a) == [i \in Slots |-> (a - 1 + i) % (MaxVal + 1)]

\* ------------------------------------------------------------- cds_vector
\* The most elements a vector is constructed with.
MaxCount == 2

Vecs == {1, 2}
\* Addresses; 0 is nullptr.
Addrs == 1..(2 * MaxCount + 1)
Null == 0
\* A cell outside every allocation.
Unallocated == -2
\* A cell of an allocation in which no element has been constructed.
Raw == -3
\* The allocators a vector can be given; two allocators compare equal exactly
\* when they are the same one.
Allocs == {1, 2}
NoAlloc == 0
\* The value of a value-initialized element, T().
DefaultVal == 0

NoVec == [state |-> "none", start |-> Null, end |-> Null, eos |-> Null,
          alloc |-> NoAlloc, by |-> "none", req |-> <<>>, src |-> 0]
NoVRet == [kind |-> "none", vec |-> 0, pos |-> 0, val |-> NoVal]
\* CountAllocatorState of a new allocator: nothing recorded.
NoState == [allocated |-> 0, deallocated |-> 0, constructed |-> 0, destructed |-> 0]
NoExc == [kind |-> "none", vec |-> 0, alloc |-> NoAlloc, count |-> 0, k |-> 0,
          destroyed |-> <<>>]

\* No destructor has run.
NoDtor == [vec |-> 0, start |-> Null, end |-> Null, eos |-> Null, calls |-> <<>>]

VecInit ==
    /\ vec = [v \in Vecs |-> NoVec]
    /\ heap = [p \in Addrs |-> Unallocated]
    /\ vret = NoVRet
    /\ madeby = [p \in Addrs |-> NoAlloc]
    /\ astate = [al \in Allocs |-> NoState]
    /\ vexc = NoExc
    /\ vmutex = [v \in Vecs |-> "unlocked"]
    /\ vdtor = NoDtor

\* Two arrays holding the given contents, no lock held, no call in progress;
\* each thread has `calls` calls to make.
ArrInitFor(contents, calls) ==
    /\ buffer = contents
    /\ wlock = [a \in Arrays |-> NoThread]
    /\ rlock = [a \in Arrays |-> {}]
    /\ pc = [t \in Threads |-> "idle"]
    /\ call = [t \in Threads |-> NoCall]
    /\ idx = [t \in Threads |-> 0]
    /\ tmp = [t \in Threads |-> NoVal]
    /\ acc = [t \in Threads |-> NoAcc]
    /\ ret = [t \in Threads |-> NoVal]
    /\ lastset = [t \in Threads |-> NoSet]
    /\ nswaps = 0
    /\ seen = [t \in Threads |-> NoVal]
    /\ ncalls = [t \in Threads |-> calls]

\* Two arrays holding the given contents, no lock held, no call in progress.
ArrInit(contents) ==
    /\ buffer = contents
    /\ wlock = [a \in Arrays |-> NoThread]
    /\ rlock = [a \in Arrays |-> {}]
    /\ pc = [t \in Threads |-> "idle"]
    /\ call = [t \in Threads |-> NoCall]
    /\ idx = [t \in Threads |-> 0]
    /\ tmp = [t \in Threads |-> NoVal]
    /\ acc = [t \in Threads |-> NoAcc]
    /\ ret = [t \in Threads |-> NoVal]
    /\ lastset = [t \in Threads |-> NoSet]
    /\ nswaps = 0
    /\ seen = [t \in Threads |-> NoVal]
    /\ ncalls = [t \in Threads |-> Unbounded]

Init == ArrInit([a \in Arrays |-> Orig(a)]) /\ VecInit

\* The arrays of TestArrayConcurrency.FillIsUnique: before the fillers start,
\* every slot holds one value that no filler uses (a.fill(-1)).
\* The arrays as constructed, each thread with a script of MaxCalls calls.
InitScript == ArrInitFor([a \in Arrays |-> Orig(a)], MaxCalls) /\ VecInit

InitFill == ArrInit([a \in Arrays |-> [i \in Slots |-> NoVal]]) /\ VecInit

\* ------------------------------------------------- lock acquisition/release
\* std::unique_lock<std::shared_mutex>(mutex_): blocks until exclusive
\* ownership is available, then owns the mutex.
AcquireExclusive(t, a) ==
    /\ CanLockExclusive(a)
    /\ wlock' = [wlock EXCEPT ![a] = t]
    /\ UNCHANGED rlock

\* lock_shared() that also waits for the other shared owners to leave.
AcquireShared_Alone(t, a) ==
    /\ CanLockExclusive(a)
    /\ rlock' = [rlock EXCEPT ![a] = @ \cup {t}]
    /\ UNCHANGED wlock

\* std::shared_lock<std::shared_mutex>(mutex_).
AcquireShared(t, a) ==
    /\ CanLockShared(a)
    /\ rlock' = [rlock EXCEPT ![a] = @ \cup {t}]
    /\ UNCHANGED wlock

\* ~unique_lock(): the owner unlocks.
ReleaseExclusive(t, a) ==
    /\ wlock' = [wlock EXCEPT ![a] = NoThread]
    /\ UNCHANGED rlock

\* ~shared_lock().
ReleaseShared(t, a) ==
    /\ rlock' = [rlock EXCEPT ![a] = @ \ {t}]
    /\ UNCHANGED wlock

\* A call begins: t leaves "idle" with the given call record.  The result of
\* the previous call is forgotten, and a thread that runs a finite script
\* has one call fewer to make.
Begin(t, c, label) ==
    /\ pc[t] = "idle"
    /\ call' = [call EXCEPT ![t] = c]
    /\ pc' = [pc EXCEPT ![t] = label]
    /\ ret' = [ret EXCEPT ![t] = NoVal]
    /\ lastset' = [lastset EXCEPT ![t] = NoSet]
    /\ ncalls[t] # 0
    /\ ncalls' = [ncalls EXCEPT ![t] = IF @ = Unbounded THEN @ ELSE @ - 1]

\* The caller catches the std::out_of_range thrown by at() or set().
Catch(t) ==
    /\ pc[t] = "threw"
    /\ pc' = [pc EXCEPT ![t] = "idle"]
    /\ call' = [call EXCEPT ![t] = NoCall]
    /\ UNCHANGED <<buffer, wlock, rlock, idx, tmp, acc, ret, lastset, nswaps, seen, ncalls, vvars>>

\* ------------------------------------------------------------ cds_array::at
\* The value a caller of at(pos) on array a expects when its previous call
\* was set(pos, v) on the same array and slot; NoVal otherwise.
Expected(t, a, pos) ==
    IF lastset[t].arr = a /\ lastset[t].pos = pos THEN lastset[t].val ELSE NoVal

\* at(pos) / operator[]: the bounds check comes first and throws
\* std::out_of_range.
AtCall(t, a, pos) ==
    /\ Begin(t, [op |-> "at", arr |-> a, other |-> NoArr, pos |-> pos,
                 val |-> Expected(t, a, pos)],
             IF OutOfRange(pos) THEN "threw" ELSE "at_lock")
    /\ UNCHANGED <<buffer, wlock, rlock, idx, tmp, acc, nswaps, seen, vvars>>

\* std::shared_lock read(mutex_).
AtLock(t) ==
    /\ pc[t] = "at_lock"
    /\ AcquireShared(t, call[t].arr)
    /\ pc' = [pc EXCEPT ![t] = "at_return"]
    /\ UNCHANGED <<buffer, call, idx, tmp, acc, ret, lastset, nswaps, seen, ncalls, vvars>>

\* return buffer_[pos]: a const_reference is returned and the shared_lock is
\* destroyed; the slot itself has not been read yet.
AtReturn(t) ==
    /\ pc[t] = "at_return"
    /\ seen' = [seen EXCEPT ![t] = buffer[call[t].arr][call[t].pos]]
    /\ ReleaseShared(t, call[t].arr)
    /\ pc' = [pc EXCEPT ![t] = "at_deref"]
    /\ UNCHANGED <<buffer, call, idx, tmp, acc, ret, lastset, nswaps, ncalls, vvars>>

\* The caller reads the element through the returned reference.
AtDeref(t) ==
    /\ pc[t] = "at_deref"
    /\ ret' = [ret EXCEPT ![t] = buffer[call[t].arr][call[t].pos]]
    /\ pc' = [pc EXCEPT ![t] = "idle"]
    /\ call' = [call EXCEPT ![t] = NoCall]
    /\ seen' = [seen EXCEPT ![t] = NoVal]
    /\ UNCHANGED <<buffer, wlock, rlock, idx, tmp, acc, lastset, nswaps, ncalls, vvars>>

\* ----------------------------------------------------------- cds_array::set
\* set(pos, value): the bounds check comes first.
SetCall(t, a, pos, v) ==
    /\ Begin(t, [op |-> "set", arr |-> a, other |-> NoArr, pos |-> pos, val |-> v],
             IF OutOfRange(pos) THEN "threw" ELSE "set_lock")
    /\ UNCHANGED <<buffer, wlock, rlock, idx, tmp, acc, nswaps, seen, vvars>>

\* set() with the unique_lock left out: the store is made without the mutex.
SetLock_NoLock(t) ==
    /\ pc[t] = "set_lock"
    /\ pc' = [pc EXCEPT ![t] = "set_store"]
    /\ UNCHANGED <<buffer, wlock, rlock, call, idx, tmp, acc, ret, lastset, nswaps, seen, ncalls, vvars>>

\* std::unique_lock write(mutex_).
SetLock(t) ==
    /\ pc[t] = "set_lock"
    /\ AcquireExclusive(t, call[t].arr)
    /\ pc' = [pc EXCEPT ![t] = "set_store"]
    /\ UNCHANGED <<buffer, call, idx, tmp, acc, ret, lastset, nswaps, seen, ncalls, vvars>>

\* set() storing into the slot next to the one asked for.
SetStore_WrongSlot(t) ==
    /\ pc[t] = "set_store"
    /\ buffer' = [buffer EXCEPT ![call[t].arr][(call[t].pos + 1) % size] = call[t].val]
    /\ ReleaseExclusive(t, call[t].arr)
    /\ lastset' = [lastset EXCEPT ![t] = [arr |-> call[t].arr, pos |-> call[t].pos,
                                          val |-> call[t].val]]
    /\ pc' = [pc EXCEPT ![t] = "idle"]
    /\ call' = [call EXCEPT ![t] = NoCall]
    /\ UNCHANGED <<idx, tmp, acc, ret, nswaps, seen, ncalls, vvars>>

\* buffer_[pos] = value; the unique_lock is destroyed on return.
SetStore(t) ==
    /\ pc[t] = "set_store"
    /\ buffer' = [buffer EXCEPT ![call[t].arr][call[t].pos] = call[t].val]
    /\ ReleaseExclusive(t, call[t].arr)
    /\ lastset' = [lastset EXCEPT ![t] = [arr |-> call[t].arr, pos |-> call[t].pos,
                                          val |-> call[t].val]]
    /\ pc' = [pc EXCEPT ![t] = "idle"]
    /\ call' = [call EXCEPT ![t] = NoCall]
    /\ UNCHANGED <<idx, tmp, acc, ret, nswaps, seen, ncalls, vvars>>

\* ---------------------------------------------------------- cds_array::fill
FillCall(t, a, v) ==
    /\ Begin(t, [op |-> "fill", arr |-> a, other |-> NoArr, pos |-> 0, val |-> v],
             "fill_lock")
    /\ UNCHANGED <<buffer, wlock, rlock, idx, tmp, acc, nswaps, seen, vvars>>

\* fill() without its scoped_write: std::fill runs without the mutex.
FillLock_NoLock(t) ==
    /\ pc[t] = "fill_lock"
    /\ idx' = [idx EXCEPT ![t] = 0]
    /\ pc' = [pc EXCEPT ![t] = "fill_loop"]
    /\ UNCHANGED <<buffer, wlock, rlock, call, tmp, acc, ret, lastset, nswaps, seen, ncalls, vvars>>

\* auto scoped_write = new_scoped_write().
FillLock(t) ==
    /\ pc[t] = "fill_lock"
    /\ AcquireExclusive(t, call[t].arr)
    /\ idx' = [idx EXCEPT ![t] = 0]
    /\ pc' = [pc EXCEPT ![t] = "fill_loop"]
    /\ UNCHANGED <<buffer, call, tmp, acc, ret, lastset, nswaps, seen, ncalls, vvars>>

\* One assignment of std::fill(begin(), end(), val).
FillStep(t) ==
    /\ pc[t] = "fill_loop"
    /\ idx[t] < size
    /\ buffer' = [buffer EXCEPT ![call[t].arr][idx[t]] = call[t].val]
    /\ idx' = [idx EXCEPT ![t] = @ + 1]
    /\ UNCHANGED <<wlock, rlock, pc, call, tmp, acc, ret, lastset, nswaps, seen, ncalls, vvars>>

\* fill() whose scoped_write outlives the call: the lock is not given back.
FillReturn_KeepsLock(t) ==
    /\ pc[t] = "fill_loop"
    /\ idx[t] = size
    /\ idx' = [idx EXCEPT ![t] = 0]
    /\ pc' = [pc EXCEPT ![t] = "idle"]
    /\ call' = [call EXCEPT ![t] = NoCall]
    /\ UNCHANGED <<buffer, wlock, rlock, tmp, acc, ret, lastset, nswaps, seen, ncalls, vvars>>

\* std::fill has reached end(); the scoped_write is destroyed on return.
FillReturn(t) ==
    /\ pc[t] = "fill_loop"
    /\ idx[t] = size
    /\ ReleaseExclusive(t, call[t].arr)
    /\ idx' = [idx EXCEPT ![t] = 0]
    /\ pc' = [pc EXCEPT ![t] = "idle"]
    /\ call' = [call EXCEPT ![t] = NoCall]
    /\ UNCHANGED <<buffer, tmp, acc, ret, lastset, nswaps, seen, ncalls, vvars>>

\* ---------------------------------------------------------- cds_array::swap
\* a.swap(b), called on a (this) with another array b (other).
SwapCall(t, a, b) ==
    /\ a # b
    /\ Begin(t, [op |-> "swap", arr |-> a, other |-> b, pos |-> 0, val |-> NoVal],
             "swap_lock_this")
    /\ UNCHANGED <<buffer, wlock, rlock, idx, tmp, acc, nswaps, seen, vvars>>

\* The array whose lock a.swap(b) takes first, and the one it takes second:
\* scoped_this is constructed before scoped_other.
SwapFirst(a, b) == a
SwapSecond(a, b) == b

\* auto scoped_this = new_scoped_write().
SwapLockThis(t) ==
    /\ pc[t] = "swap_lock_this"
    /\ AcquireExclusive(t, SwapFirst(call[t].arr, call[t].other))
    /\ pc' = [pc EXCEPT ![t] = "swap_lock_other"]
    /\ UNCHANGED <<buffer, call, idx, tmp, acc, ret, lastset, nswaps, seen, ncalls, vvars>>

\* swap() locking only its own array.
SwapLockOther_NoLock(t) ==
    /\ pc[t] = "swap_lock_other"
    /\ idx' = [idx EXCEPT ![t] = 0]
    /\ pc' = [pc EXCEPT ![t] = "swap_loop"]
    /\ UNCHANGED <<buffer, wlock, rlock, call, tmp, acc, ret, lastset, nswaps, seen, ncalls, vvars>>

\* auto scoped_other = other.new_scoped_write().
SwapLockOther(t) ==
    /\ pc[t] = "swap_lock_other"
    /\ AcquireExclusive(t, SwapSecond(call[t].arr, call[t].other))
    /\ idx' = [idx EXCEPT ![t] = 0]
    /\ pc' = [pc EXCEPT ![t] = "swap_loop"]
    /\ UNCHANGED <<buffer, call, tmp, acc, ret, lastset, nswaps, seen, ncalls, vvars>>

\* std::swap_ranges, one std::swap(x, y) per slot in three moves:
\* tmp = x
SwapLoadTmp(t) ==
    /\ pc[t] = "swap_loop"
    /\ idx[t] < size
    /\ tmp' = [tmp EXCEPT ![t] = buffer[call[t].arr][idx[t]]]
    /\ pc' = [pc EXCEPT ![t] = "swap_x"]
    /\ UNCHANGED <<buffer, wlock, rlock, call, idx, acc, ret, lastset, nswaps, seen, ncalls, vvars>>

\* x = y
SwapStoreThis(t) ==
    /\ pc[t] = "swap_x"
    /\ buffer' = [buffer EXCEPT ![call[t].arr][idx[t]] = buffer[call[t].other][idx[t]]]
    /\ pc' = [pc EXCEPT ![t] = "swap_y"]
    /\ UNCHANGED <<wlock, rlock, call, idx, tmp, acc, ret, lastset, nswaps, seen, ncalls, vvars>>

\* y = tmp
SwapStoreOther(t) ==
    /\ pc[t] = "swap_y"
    /\ buffer' = [buffer EXCEPT ![call[t].other][idx[t]] = tmp[t]]
    /\ tmp' = [tmp EXCEPT ![t] = NoVal]
    /\ idx' = [idx EXCEPT ![t] = @ + 1]
    /\ pc' = [pc EXCEPT ![t] = "swap_loop"]
    /\ UNCHANGED <<wlock, rlock, call, acc, ret, lastset, nswaps, seen, ncalls, vvars>>

\* swap_ranges has reached end(); scoped_other and scoped_this are destroyed.
SwapReturn(t) ==
    /\ pc[t] = "swap_loop"
    /\ idx[t] = size
    /\ wlock' = [a \in Arrays |->
                    IF a \in {call[t].arr, call[t].other} THEN NoThread ELSE wlock[a]]
    /\ nswaps' = (nswaps + 1) % 2
    /\ idx' = [idx EXCEPT ![t] = 0]
    /\ pc' = [pc EXCEPT ![t] = "idle"]
    /\ call' = [call EXCEPT ![t] = NoCall]
    /\ UNCHANGED <<buffer, rlock, tmp, acc, ret, lastset, seen, ncalls, vvars>>

\* a.swap(a) is called: `other` is the array itself.
SwapSelfCall(t, a) ==
    /\ Begin(t, [op |-> "swap", arr |-> a, other |-> a, pos |-> 0, val |-> NoVal],
             "swap_lock_this")
    /\ UNCHANGED <<buffer, wlock, rlock, idx, tmp, acc, nswaps, seen, vvars>>

\* auto scoped_other = other.new_scoped_write() when the caller already owns
\* other.mutex_: undefined behaviour for std::shared_mutex.  Either lock()
\* never returns (SwapLockOther is not enabled), or it reports
\* resource_deadlock_would_occur, and the exception leaving the noexcept
\* swap() ends the process in std::terminate.
SwapSelfAbort(t) ==
    /\ pc[t] = "swap_lock_other"
    /\ wlock[SwapSecond(call[t].arr, call[t].other)] = t
    /\ pc' = [pc EXCEPT ![t] = "terminated"]
    /\ UNCHANGED <<buffer, wlock, rlock, call, idx, tmp, acc, ret, lastset, nswaps, seen, ncalls, vvars>>

\* --------------------------------------------------- cds_array::scoped_read
\* new_scoped_read() is called.
ReadCall(t, a) ==
    /\ Begin(t, [op |-> "scoped_read", arr |-> a, other |-> NoArr, pos |-> 0,
                 val |-> NoVal], "read_lock")
    /\ UNCHANGED <<buffer, wlock, rlock, idx, tmp, acc, nswaps, seen, vvars>>

\* scoped_read whose lock_ member is never locked (std::defer_lock).
ReadLock_NoLock(t) ==
    /\ pc[t] = "read_lock"
    /\ pc' = [pc EXCEPT ![t] = "read_held"]
    /\ UNCHANGED <<buffer, wlock, rlock, call, idx, tmp, acc, ret, lastset, nswaps, seen, ncalls, vvars>>

\* scoped_read(arr): lock_(arr.mutex_).
ReadLock(t) ==
    /\ pc[t] = "read_lock"
    /\ AcquireShared(t, call[t].arr)
    /\ pc' = [pc EXCEPT ![t] = "read_held"]
    /\ UNCHANGED <<buffer, call, idx, tmp, acc, ret, lastset, nswaps, seen, ncalls, vvars>>

\* scoped_read::at(pos) / operator[]: bounds check, then the slot is read.
\* A throw leaves the accessor, and its lock, alive.
ReadAt(t, pos) ==
    /\ pc[t] = "read_held"
    /\ IF OutOfRange(pos)
       THEN /\ pc' = [pc EXCEPT ![t] = "read_threw"]
            /\ call' = [call EXCEPT ![t].pos = pos]
            /\ UNCHANGED acc
       ELSE /\ acc' = [acc EXCEPT ![t][pos] = buffer[call[t].arr][pos]]
            /\ UNCHANGED <<pc, call>>
    /\ UNCHANGED <<buffer, wlock, rlock, idx, tmp, ret, lastset, nswaps, seen, ncalls, vvars>>

\* The holder catches the std::out_of_range inside the accessor's scope.
ReadCatch(t) ==
    /\ pc[t] = "read_threw"
    /\ pc' = [pc EXCEPT ![t] = "read_held"]
    /\ call' = [call EXCEPT ![t].pos = 0]
    /\ UNCHANGED <<buffer, wlock, rlock, idx, tmp, acc, ret, lastset, nswaps, seen, ncalls, vvars>>

\* ~scoped_read().
ReadRelease(t) ==
    /\ pc[t] = "read_held"
    /\ ReleaseShared(t, call[t].arr)
    /\ acc' = [acc EXCEPT ![t] = NoAcc]
    /\ pc' = [pc EXCEPT ![t] = "idle"]
    /\ call' = [call EXCEPT ![t] = NoCall]
    /\ UNCHANGED <<buffer, idx, tmp, ret, lastset, nswaps, seen, ncalls, vvars>>

\* ------------------------------- cds_array::at() under the caller's own scoped_read
\* The thread waits for the exclusive lock of array a.
WaitsExclusive(u, a) ==
    \/ pc[u] \in {"set_lock", "fill_lock", "write_lock", "swap_lock_this"} /\ call[u].arr = a
    \/ pc[u] = "swap_lock_other" /\ call[u].other = a

\* a.at(pos) / a[pos] is called by the thread that holds a scoped_read of a
\* (TestCdsArray.TestStdSort).  The bounds check comes first.
NestedAtCall(t, pos) ==
    /\ pc[t] = "read_held"
    /\ pc' = [pc EXCEPT ![t] = IF OutOfRange(pos) THEN "read_threw" ELSE "nested_lock"]
    /\ call' = [call EXCEPT ![t].pos = pos]
    /\ UNCHANGED <<buffer, wlock, rlock, idx, tmp, acc, ret, lastset, nswaps, seen, ncalls, vvars>>

\* std::shared_lock read(mutex_) by a thread that already owns mutex_ in
\* shared mode: undefined behaviour for std::shared_mutex.  One outcome: the
\* implementation grants a second shared ownership.
NestedAtLock(t) ==
    /\ pc[t] = "nested_lock"
    /\ CanLockShared(call[t].arr)
    /\ pc' = [pc EXCEPT ![t] = "nested_return"]
    /\ UNCHANGED <<buffer, wlock, rlock, call, idx, tmp, acc, ret, lastset, nswaps, seen, ncalls, vvars>>

\* The other outcome: the implementation queues a new shared request behind
\* a thread that waits for the exclusive lock, and that thread waits for the
\* caller's scoped_read to go.
NestedAtWait(t) ==
    /\ pc[t] = "nested_lock"
    /\ \E u \in Threads \ {t} : WaitsExclusive(u, call[t].arr)
    /\ pc' = [pc EXCEPT ![t] = "nested_blocked"]
    /\ UNCHANGED <<buffer, wlock, rlock, call, idx, tmp, acc, ret, lastset, nswaps, seen, ncalls, vvars>>

\* return buffer_[pos]; the second shared ownership ends, the scoped_read
\* keeps the first, and the caller reads the slot through the reference.
NestedAtReturn(t) ==
    /\ pc[t] = "nested_return"
    /\ ret' = [ret EXCEPT ![t] = buffer[call[t].arr][call[t].pos]]
    /\ pc' = [pc EXCEPT ![t] = "read_held"]
    /\ call' = [call EXCEPT ![t].pos = 0]
    /\ UNCHANGED <<buffer, wlock, rlock, idx, tmp, acc, lastset, nswaps, seen, ncalls, vvars>>

\* -------------------------------------------------- cds_array::scoped_write
\* new_scoped_write() is called.
WriteCall(t, a) ==
    /\ Begin(t, [op |-> "scoped_write", arr |-> a, other |-> NoArr, pos |-> 0,
                 val |-> NoVal], "write_lock")
    /\ UNCHANGED <<buffer, wlock, rlock, idx, tmp, acc, nswaps, seen, vvars>>

\* scoped_write holding a std::shared_lock instead of a std::unique_lock.
WriteLock_Shared(t) ==
    /\ pc[t] = "write_lock"
    /\ AcquireShared(t, call[t].arr)
    /\ pc' = [pc EXCEPT ![t] = "write_held"]
    /\ UNCHANGED <<buffer, call, idx, tmp, acc, ret, lastset, nswaps, seen, ncalls, vvars>>

\* scoped_write(arr): lock_(arr.mutex_).
WriteLock(t) ==
    /\ pc[t] = "write_lock"
    /\ AcquireExclusive(t, call[t].arr)
    /\ pc' = [pc EXCEPT ![t] = "write_held"]
    /\ UNCHANGED <<buffer, call, idx, tmp, acc, ret, lastset, nswaps, seen, ncalls, vvars>>

\* scoped_write::at(pos) / operator[] for an in-range pos: the reference it
\* returns is the element array_.buffer_[pos].
ScopedWriteAt(a, pos) == buffer[a][pos]

\* scoped_write[pos] = v: bounds check, then the store through the reference.
WriteAt(t, pos, v) ==
    /\ pc[t] = "write_held"
    /\ IF OutOfRange(pos)
       THEN /\ pc' = [pc EXCEPT ![t] = "write_threw"]
            /\ call' = [call EXCEPT ![t].pos = pos]
            /\ UNCHANGED <<buffer, acc>>
       ELSE /\ buffer' = [buffer EXCEPT ![call[t].arr][pos] = v]
            /\ acc' = [acc EXCEPT ![t][pos] = v]
            /\ UNCHANGED <<pc, call>>
    /\ UNCHANGED <<wlock, rlock, idx, tmp, ret, lastset, nswaps, seen, ncalls, vvars>>

\* The holder catches the std::out_of_range inside the accessor's scope.
WriteCatch(t) ==
    /\ pc[t] = "write_threw"
    /\ pc' = [pc EXCEPT ![t] = "write_held"]
    /\ call' = [call EXCEPT ![t].pos = 0]
    /\ UNCHANGED <<buffer, wlock, rlock, idx, tmp, acc, ret, lastset, nswaps, seen, ncalls, vvars>>

\* ~scoped_write() whose lock_ member is not unlocked (released from the guard).
WriteRelease_KeepsLock(t) ==
    /\ pc[t] = "write_held"
    /\ acc' = [acc EXCEPT ![t] = NoAcc]
    /\ pc' = [pc EXCEPT ![t] = "idle"]
    /\ call' = [call EXCEPT ![t] = NoCall]
    /\ UNCHANGED <<buffer, wlock, rlock, idx, tmp, ret, lastset, nswaps, seen, ncalls, vvars>>

\* ~scoped_write().
WriteRelease(t) ==
    /\ pc[t] = "write_held"
    /\ ReleaseExclusive(t, call[t].arr)
    /\ acc' = [acc EXCEPT ![t] = NoAcc]
    /\ pc' = [pc EXCEPT ![t] = "idle"]
    /\ call' = [call EXCEPT ![t] = NoCall]
    /\ UNCHANGED <<buffer, idx, tmp, ret, lastset, nswaps, seen, ncalls, vvars>>

\* ------------------------------------------------------ cds_vector members
\* The cells base .. base + n - 1 exist and belong to no allocation.
FreeRun(base, n) ==
    \A p \in base..(base + n - 1) : p \in Addrs /\ heap[p] = Unallocated

\* std::allocator_traits<Allocator>::allocate(allocator_, n): the block the
\* allocator hands out, here the lowest free one.
Allocate(n) ==
    CHOOSE b \in Addrs : FreeRun(b, n) /\ \A c \in Addrs : c < b => ~FreeRun(c, n)

\* The calls an allocator records: CountAllocator::allocate, deallocate,
\* construct and destroy each count themselves in the shared state.
Record(al, na, nd, nc, nx) ==
    astate' = [astate EXCEPT ![al] =
                  [allocated |-> @.allocated + na,
                   deallocated |-> @.deallocated + nd,
                   constructed |-> @.constructed + nc,
                   destructed |-> @.destructed + nx]]

\* The elements placed in the block last to first.
Place_Reversed(b, n, elems, al) ==
    /\ heap' = [p \in Addrs |->
                   IF p \in b..(b + n - 1)
                   THEN IF p - b + 1 <= Len(elems)
                        THEN elems[Len(elems) - (p - b)] ELSE Raw
                   ELSE heap[p]]
    /\ madeby' = [p \in Addrs |-> IF p \in b..(b + n - 1) THEN al ELSE madeby[p]]

\* The block of n cells at b, handed out by allocator al, after the elements
\* elems have been placed in its first cells; the other cells stay raw.
Place(b, n, elems, al) ==
    /\ heap' = [p \in Addrs |->
                   IF p \in b..(b + n - 1)
                   THEN IF p - b + 1 <= Len(elems) THEN elems[p - b + 1] ELSE Raw
                   ELSE heap[p]]
    /\ madeby' = [p \in Addrs |-> IF p \in b..(b + n - 1) THEN al ELSE madeby[p]]

\* size(): end_ - start_.
VecSize(v) == vec[v].end - vec[v].start

\* capacity(): end_of_storage_ - start_.
VecCapacity(v) == vec[v].eos - vec[v].start

\* empty(): !(end_ - start_).
VecEmpty(v) == ~(vec[v].end - vec[v].start # 0)

\* The elements of [start_, end_), in index order.
Elems(v) == [i \in 1..VecSize(v) |-> heap[vec[v].start + i - 1]]

\* The sequence of n copies of value.
Repeat(n, value) == [i \in 1..n |-> value]

\* cds_vector() and cds_vector(alloc): all three cursors are nullptr.
VecCtorDefault(v, al) ==
    /\ vec[v].state = "none"
    /\ vec' = [vec EXCEPT ![v] = [state |-> "live", start |-> Null, end |-> Null,
                                  eos |-> Null, alloc |-> al, by |-> "default",
                                  req |-> <<>>, src |-> 0]]
    /\ vret' = NoVRet
    /\ UNCHANGED <<heap, madeby, astate, vexc, vmutex, vdtor, avars>>

\* A count-and-value constructor that reserves the block and leaves it empty:
\* end_ stays at start_.
VecCtorCountValue_NoFill(v, count, value, al) ==
    /\ vec[v].state = "none"
    /\ LET b == Allocate(count) IN
          /\ vec' = [vec EXCEPT ![v] = [state |-> "live", start |-> b,
                                        end |-> b, eos |-> b + count,
                                        alloc |-> al, by |-> "count_value",
                                        req |-> Repeat(count, value), src |-> 0]]
          /\ Place(b, count, <<>>, al)
    /\ Record(al, 1, 0, 0, 0)
    /\ vret' = NoVRet
    /\ UNCHANGED <<vexc, vmutex, vdtor, avars>>

\* cds_vector(count, value, alloc): allocate count cells, set the cursors, and
\* std::fill(start_, end_, value).
VecCtorCountValue(v, count, value, al) ==
    /\ vec[v].state = "none"
    /\ LET b == Allocate(count) IN
          /\ vec' = [vec EXCEPT ![v] = [state |-> "live", start |-> b,
                                        end |-> b + count, eos |-> b + count,
                                        alloc |-> al, by |-> "count_value",
                                        req |-> Repeat(count, value), src |-> 0]]
          /\ Place(b, count, Repeat(count, value), al)
    /\ Record(al, 1, 0, 0, 0)
    /\ vret' = NoVRet
    /\ UNCHANGED <<vexc, vmutex, vdtor, avars>>

\* The rollback loop that destroys one element fewer than were constructed.
RECURSIVE Rollback_SkipLast(_, _)
Rollback_SkipLast(end, start) ==
    IF end = start \/ end = start + 1 THEN <<>>
    ELSE <<end>> \o Rollback_SkipLast(end - 1, start)

\* The rollback of cds_vector(count, alloc),
\*     while (end_ != start_) { destroy(allocator_, end_--); }
\* as the addresses passed to destroy, in the order of the calls.
RECURSIVE Rollback(_, _)
Rollback(end, start) ==
    IF end = start THEN <<>> ELSE <<end>> \o Rollback(end - 1, start)

\* cds_vector(count, alloc): allocate count cells, then construct them one by
\* one from start_.  The element constructor throws at slot k (k = count: it
\* never throws); the handler runs the rollback, deallocates and rethrows.
\* A destroy of a cell in which nothing was constructed is undefined
\* behaviour: it passes unnoticed or the process faults there.
VecCtorCount(v, count, k, al) ==
    /\ vec[v].state = "none"
    /\ k \in 0..count
    /\ LET b == Allocate(count)
           calls == Rollback(b + k, b)
           wild == {i \in 1..Len(calls) : calls[i] \notin b..(b + k - 1)}
           first == CHOOSE i \in wild : \A j \in wild : i <= j
       IN  IF k = count
           THEN /\ vec' = [vec EXCEPT ![v] = [state |-> "live", start |-> b,
                                              end |-> b + count, eos |-> b + count,
                                              alloc |-> al, by |-> "count",
                                              req |-> Repeat(count, DefaultVal), src |-> 0]]
                /\ Place(b, count, Repeat(count, DefaultVal), al)
                /\ Record(al, 1, 0, count, 0)
                /\ UNCHANGED vexc
           ELSE \/ /\ vec' = [vec EXCEPT ![v] = [NoVec EXCEPT !.state = "failed"]]
                   /\ Record(al, 1, 1, k, Len(calls))
                   /\ vexc' = [kind |-> "threw", vec |-> v, alloc |-> al,
                               count |-> count, k |-> k,
                               destroyed |-> [i \in 1..Len(calls) |-> calls[i] - b]]
                   /\ UNCHANGED <<heap, madeby>>
                \/ /\ wild # {}
                   /\ vec' = [vec EXCEPT ![v] = [state |-> "crashed", start |-> b,
                                                 end |-> b + k, eos |-> b + count,
                                                 alloc |-> al, by |-> "count",
                                                 req |-> Repeat(count, DefaultVal), src |-> 0]]
                   /\ Place(b, count, Repeat(k, DefaultVal), al)
                   /\ Record(al, 1, 0, k, first - 1)
                   /\ vexc' = [kind |-> "crashed", vec |-> v, alloc |-> al,
                               count |-> count, k |-> k,
                               destroyed |-> [i \in 1..(first - 1) |-> calls[i] - b]]
    /\ vret' = NoVRet
    /\ UNCHANGED <<vmutex, vdtor, avars>>

\* cds_vector(first, last, alloc): allocate std::distance(first, last) cells
\* and std::uninitialized_copy the range into them.
VecCtorRange(v, elems, al) ==
    /\ vec[v].state = "none"
    /\ LET count == Len(elems)
           b == Allocate(count)
       IN  /\ vec' = [vec EXCEPT ![v] = [state |-> "live", start |-> b,
                                         end |-> b + count, eos |-> b + count,
                                         alloc |-> al, by |-> "range",
                                         req |-> elems, src |-> 0]]
           /\ Place(b, count, elems, al)
    /\ Record(al, 1, 0, 0, 0)
    /\ vret' = NoVRet
    /\ UNCHANGED <<vexc, vmutex, vdtor, avars>>

\* cds_vector(init, alloc): allocate init.size() cells and
\* std::uninitialized_copy the list into them.
VecCtorInitList(v, init, al) ==
    /\ vec[v].state = "none"
    /\ LET n == Len(init)
           b == Allocate(n)
       IN  /\ vec' = [vec EXCEPT ![v] = [state |-> "live", start |-> b,
                                         end |-> b + n, eos |-> b + n,
                                         alloc |-> al, by |-> "init_list",
                                         req |-> init, src |-> 0]]
           /\ Place(b, n, init, al)
    /\ Record(al, 1, 0, 0, 0)
    /\ vret' = NoVRet
    /\ UNCHANGED <<vexc, vmutex, vdtor, avars>>

\* A copy constructor that takes over the source's cursors instead of
\* copying the elements into a block of its own.
VecCtorCopy_Shallow(v, other) ==
    /\ vec[v].state = "none"
    /\ other # v
    /\ vec[other].state = "live"
    /\ vec' = [vec EXCEPT ![v] = [vec[other] EXCEPT !.by = "copy",
                                                     !.req = Elems(other),
                                                     !.src = other]]
    /\ vret' = NoVRet
    /\ UNCHANGED <<heap, madeby, astate, vexc, vmutex, vdtor, avars>>

\* cds_vector(const cds_vector& other): the allocator is
\* select_on_container_copy_construction(other.allocator_), a copy of it;
\* allocate std::distance(other.start_, other.end_of_storage_) cells and
\* std::uninitialized_copy [other.start_, other.end_) into them.
VecCtorCopy(v, other) ==
    /\ vec[v].state = "none"
    /\ other # v
    /\ vec[other].state = "live"
    /\ LET al == vec[other].alloc
           n == vec[other].eos - vec[other].start
           b == Allocate(n)
       IN  /\ vec' = [vec EXCEPT ![v] = [state |-> "live", start |-> b,
                                         end |-> b + VecSize(other), eos |-> b + n,
                                         alloc |-> al, by |-> "copy",
                                         req |-> Elems(other), src |-> other]]
           /\ Place(b, n, Elems(other), al)
           /\ Record(al, 1, 0, 0, 0)
    /\ vret' = NoVRet
    /\ UNCHANGED <<vexc, vmutex, vdtor, avars>>

\* cds_vector(const cds_vector& other, const Allocator& alloc): the block
\* that allocate() returns is dropped and start_ is never assigned.  Reading
\* it is undefined behaviour: it holds whatever its storage held before, g,
\* which is nullptr or an address of memory in use, never the new block.
\* end_of_storage_ becomes g + n, and std::uninitialized_copy writes
\* [other.start_, other.end_) at g: the writes land in cells in use, or the
\* process faults.
VecCtorCopyAlloc(v, other, al) ==
    /\ vec[v].state = "none"
    /\ other # v
    /\ vec[other].state = "live"
    /\ LET n == vec[other].eos - vec[other].start
           len == VecSize(other)
           b == Allocate(n)
           block == b..(b + n - 1)
           InUse(p) == p \in Addrs /\ (p \in block \/ heap[p] # Unallocated)
       IN  /\ Record(al, 1, 0, 0, 0)
           /\ madeby' = [p \in Addrs |-> IF p \in block THEN al ELSE madeby[p]]
           /\ \/ \E g \in ({Null} \cup Addrs) \ {b} :
                    /\ \A p \in g..(g + len - 1) : InUse(p)
                    /\ vec' = [vec EXCEPT ![v] = [state |-> "live", start |-> g,
                                                  end |-> g + len, eos |-> g + n,
                                                  alloc |-> al, by |-> "copy_alloc",
                                                  req |-> Elems(other), src |-> other]]
                    /\ heap' = [p \in Addrs |->
                                   IF p \in g..(g + len - 1) THEN Elems(other)[p - g + 1]
                                   ELSE IF p \in block THEN Raw ELSE heap[p]]
              \/ /\ len > 0
                 /\ vec' = [vec EXCEPT ![v] = [state |-> "crashed", start |-> Null,
                                               end |-> Null, eos |-> Null,
                                               alloc |-> al, by |-> "copy_alloc",
                                               req |-> Elems(other), src |-> other]]
                 /\ heap' = [p \in Addrs |-> IF p \in block THEN Raw ELSE heap[p]]
    /\ vret' = NoVRet
    /\ UNCHANGED <<vexc, vmutex, vdtor, avars>>

\* The cursors and the allocator of `other` pass to v; other.start_, end_
\* and end_of_storage_ become nullptr (std::exchange).
Steal(v, other, how) ==
    /\ vec' = [vec EXCEPT
                  ![v] = [vec[other] EXCEPT !.by = how, !.req = Elems(other),
                                            !.src = other],
                  ![other] = [@ EXCEPT !.start = Null, !.end = Null, !.eos = Null,
                                       !.by = "moved_from", !.req = <<>>]]
    /\ UNCHANGED <<heap, madeby, astate>>

\* A move constructor that copies the cursors and leaves the source's as
\* they were.
VecCtorMove_KeepSource(v, other) ==
    /\ vec[v].state = "none"
    /\ other # v
    /\ vec[other].state = "live"
    /\ vec' = [vec EXCEPT ![v] = [vec[other] EXCEPT !.by = "move",
                                                     !.req = Elems(other),
                                                     !.src = other]]
    /\ vret' = NoVRet
    /\ UNCHANGED <<heap, madeby, astate, vexc, vmutex, vdtor, avars>>

\* cds_vector(cds_vector&& other).
VecCtorMove(v, other) ==
    /\ vec[v].state = "none"
    /\ other # v
    /\ vec[other].state = "live"
    /\ Steal(v, other, "move")
    /\ vret' = NoVRet
    /\ UNCHANGED <<vexc, vmutex, vdtor, avars>>

\* An allocator-extended move constructor that takes over the source's block
\* whatever the allocators.
VecCtorMoveAlloc_AlwaysSteal(v, other, al) ==
    /\ vec[v].state = "none"
    /\ other # v
    /\ vec[other].state = "live"
    /\ vec' = [vec EXCEPT
                  ![v] = [vec[other] EXCEPT !.alloc = al, !.by = "move_alloc",
                                            !.req = Elems(other), !.src = other],
                  ![other] = [@ EXCEPT !.start = Null, !.end = Null, !.eos = Null,
                                       !.by = "moved_from", !.req = <<>>]]
    /\ vret' = NoVRet
    /\ UNCHANGED <<heap, madeby, astate, vexc, vmutex, vdtor, avars>>

\* cds_vector(cds_vector&& other, const Allocator& alloc): when alloc equals
\* other.allocator_ the cursors are exchanged as in the move constructor;
\* otherwise std::distance(other.start_, other.end_of_storage_) cells are
\* allocated from alloc and [other.start_, other.end_) is moved into them
\* element by element, and `other` keeps its cursors.
VecCtorMoveAlloc(v, other, al) ==
    /\ vec[v].state = "none"
    /\ other # v
    /\ vec[other].state = "live"
    /\ IF al = vec[other].alloc
       THEN Steal(v, other, "move_alloc")
       ELSE LET n == vec[other].eos - vec[other].start
                b == Allocate(n)
            IN  /\ vec' = [vec EXCEPT ![v] = [state |-> "live", start |-> b,
                                              end |-> b + VecSize(other),
                                              eos |-> b + n, alloc |-> al,
                                              by |-> "move_alloc",
                                              req |-> Elems(other), src |-> other]]
                /\ Place(b, n, Elems(other), al)
                /\ Record(al, 1, 0, 0, 0)
    /\ vret' = NoVRet
    /\ UNCHANGED <<vexc, vmutex, vdtor, avars>>

\* *(start_ + pos): the element when the address is one of the vector's
\* constructed cells; otherwise the read is undefined behaviour, which gives
\* some value or faults.
Deref(v, pos) ==
    LET p == vec[v].start + pos IN
    IF vec[v].start # Null /\ p >= vec[v].start /\ p < vec[v].end
    THEN {[kind |-> "value", vec |-> v, pos |-> pos, val |-> heap[p]]}
    ELSE {[kind |-> "fault", vec |-> v, pos |-> pos, val |-> NoVal]}
         \cup {[kind |-> "value", vec |-> v, pos |-> pos, val |-> x] : x \in Values}

\* operator[](pos): return *(start_ + pos), with no bounds check.
VecIndex(v, pos) ==
    /\ vec[v].state = "live"
    /\ vret' \in Deref(v, pos)
    /\ UNCHANGED <<vec, heap, madeby, astate, vexc, vmutex, vdtor, avars>>

\* A destructor loop that runs from end_ - 1 down to start_.
RECURSIVE Destroys_Backwards(_, _)
Destroys_Backwards(ptr, end) ==
    IF ptr = end THEN <<>>
    ELSE <<[op |-> "destroy", at |-> end - 1, n |-> 1]>> \o Destroys_Backwards(ptr, end - 1)

\* for (auto ptr = start_; ptr != end_; ++ptr) destroy(allocator_, ptr): the
\* calls, in the order they are made.
RECURSIVE Destroys(_, _)
Destroys(ptr, end) ==
    IF ptr = end THEN <<>>
    ELSE <<[op |-> "destroy", at |-> ptr, n |-> 1]>> \o Destroys(ptr + 1, end)

\* The calls ~cds_vector() makes to the allocator: the loop, then
\* if (start_) deallocate(allocator_, start_, end_of_storage_ - start_).
DtorCalls(v) ==
    Destroys(vec[v].start, vec[v].end)
       \o (IF vec[v].start # Null
           THEN <<[op |-> "deallocate", at |-> vec[v].start,
                   n |-> vec[v].eos - vec[v].start]>>
           ELSE <<>>)

\* ~cds_vector(): destroy [start_, end_), then deallocate when start_ is not
\* nullptr.
VecDtor(v) ==
    /\ vec[v].state = "live"
    /\ heap' = [p \in Addrs |->
                   IF vec[v].start # Null /\ p >= vec[v].start /\ p < vec[v].eos
                   THEN Unallocated ELSE heap[p]]
    /\ madeby' = [p \in Addrs |->
                     IF vec[v].start # Null /\ p >= vec[v].start /\ p < vec[v].eos
                     THEN NoAlloc ELSE madeby[p]]
    /\ Record(vec[v].alloc, 0, IF vec[v].start # Null THEN 1 ELSE 0, 0, VecSize(v))
    /\ vec' = [vec EXCEPT ![v] = [NoVec EXCEPT !.state = "destroyed", !.by = vec[v].by]]
    /\ vdtor' = [vec |-> v, start |-> vec[v].start, end |-> vec[v].end,
                 eos |-> vec[v].eos, calls |-> DtorCalls(v)]
    /\ vret' = NoVRet
    /\ UNCHANGED <<vexc, vmutex, avars>>

\* ~cds_vector() of a vector whose start_ was never assigned a block:
\* deallocate(start_, ...) of a pointer the allocator did not return is
\* undefined behaviour.  It passes unnoticed (VecDtor) or, after the elements
\* have been destroyed, the process faults in the allocator.
VecDtorFault(v) ==
    /\ vec[v].state = "live"
    /\ vec[v].by = "copy_alloc"
    /\ vec[v].start # Null
    /\ Record(vec[v].alloc, 0, 0, 0, VecSize(v))
    /\ vec' = [vec EXCEPT ![v].state = "crashed"]
    /\ vdtor' = [vec |-> v, start |-> vec[v].start, end |-> vec[v].end,
                 eos |-> vec[v].eos, calls |-> DtorCalls(v)]
    /\ vret' = NoVRet
    /\ UNCHANGED <<heap, madeby, vexc, vmutex, avars>>

\* ------------------------------------------------------------ specifications
AtOps(t) ==
    \/ \E a \in Arrays, pos \in Positions : AtCall(t, a, pos)
    \/ AtLock(t)
    \/ AtReturn(t)
    \/ AtDeref(t)
    \/ Catch(t)

SetOps(t) ==
    \/ \E a \in Arrays, pos \in Positions, v \in Values : SetCall(t, a, pos, v)
    \/ SetLock(t)
    \/ SetStore(t)
    \/ Catch(t)

FillOps(t) ==
    \/ \E a \in Arrays, v \in Values : FillCall(t, a, v)
    \/ FillLock(t)
    \/ FillStep(t)
    \/ FillReturn(t)

SwapOps(t) ==
    \/ \E a \in Arrays, b \in Arrays : SwapCall(t, a, b)
    \/ SwapLockThis(t)
    \/ SwapLockOther(t)
    \/ SwapLoadTmp(t)
    \/ SwapStoreThis(t)
    \/ SwapStoreOther(t)
    \/ SwapReturn(t)

ReadOps(t) ==
    \/ \E a \in Arrays : ReadCall(t, a)
    \/ ReadLock(t)
    \/ \E pos \in Positions : ReadAt(t, pos)
    \/ ReadCatch(t)
    \/ ReadRelease(t)

WriteOps(t) ==
    \/ \E a \in Arrays : WriteCall(t, a)
    \/ WriteLock(t)
    \/ \E pos \in Positions, v \in Values : WriteAt(t, pos, v)
    \/ WriteCatch(t)
    \/ WriteRelease(t)

\* Every member function of cds_array, from every thread.
Next ==
    \E t \in Threads :
        AtOps(t) \/ SetOps(t) \/ FillOps(t) \/ SwapOps(t) \/ ReadOps(t) \/ WriteOps(t)

Spec == Init /\ [][Next]_vars

\* Threads that only swap the two arrays, in either direction
\* (TestArrayConcurrency.SwapNoDeadlock).
NextSwap == \E t \in Threads : SwapOps(t)

SpecSwap == Init /\ [][NextSwap]_vars

\* Threads that only fill (TestArrayConcurrency.FillIsUnique).
NextFill == \E t \in Threads : FillOps(t)

SpecFill == InitFill /\ [][NextFill]_vars

\* One thread alone, calling every member function (the tests of test_array.cc).
NextSolo == AtOps(1) \/ SetOps(1) \/ FillOps(1) \/ SwapOps(1) \/ ReadOps(1) \/ WriteOps(1)

SpecSolo == Init /\ [][NextSolo]_vars

\* The array every scripted thread works on.
TheArray == 1

\* The calls of a scripted thread: at, set, fill and the two accessors, all
\* on one array.
ScriptCalls(t) ==
    \/ \E pos \in Positions : AtCall(t, TheArray, pos)
    \/ \E pos \in Positions, v \in Values : SetCall(t, TheArray, pos, v)
    \/ \E v \in Values : FillCall(t, TheArray, v)
    \/ ReadCall(t, TheArray)
    \/ WriteCall(t, TheArray)

\* What a thread does inside a batch while it holds its accessor.
ScriptBatch(t) ==
    \/ \E pos \in Positions : ReadAt(t, pos)
    \/ \E pos \in Positions, v \in Values : WriteAt(t, pos, v)

\* The steps by which a call in progress advances to its return.
ScriptSteps(t) ==
    \/ AtLock(t) \/ AtReturn(t) \/ AtDeref(t) \/ Catch(t)
    \/ SetLock(t) \/ SetStore(t)
    \/ FillLock(t) \/ FillStep(t) \/ FillReturn(t)
    \/ ReadLock(t) \/ ReadCatch(t) \/ ReadRelease(t)
    \/ WriteLock(t) \/ WriteCatch(t) \/ WriteRelease(t)

NextScript == \E t \in Threads : ScriptCalls(t) \/ ScriptBatch(t) \/ ScriptSteps(t)

\* A running thread is scheduled again and again, so a step of a call that
\* stays possible is taken; a batch is finite, so the accessor that can be
\* destroyed again and again is destroyed.
FairScript ==
    \A t \in Threads :
        /\ WF_vars(ScriptSteps(t))
        /\ SF_vars(ReadRelease(t))
        /\ SF_vars(WriteRelease(t))

SpecScript == InitScript /\ [][NextScript]_vars /\ FairScript

\* Threads that read an array in batches, calling at() on the array from
\* inside a batch, next to threads that set (TestCdsArray.TestStdSort).
NestedAtOps(t) ==
    \/ \E pos \in Positions : NestedAtCall(t, pos)
    \/ NestedAtLock(t)
    \/ NestedAtWait(t)
    \/ NestedAtReturn(t)

NextNested == \E t \in Threads : ReadOps(t) \/ NestedAtOps(t) \/ SetOps(t)

SpecNested == Init /\ [][NextNested]_vars

\* The process is gone once std::terminate has been called.
Terminated == \E t \in Threads : pc[t] = "terminated"

\* Threads that swap, an array with the other one or with itself.
NextSwapSelf ==
    /\ ~Terminated
    /\ \E t \in Threads :
        \/ SwapOps(t)
        \/ \E a \in Arrays : SwapSelfCall(t, a)
        \/ SwapSelfAbort(t)

SpecSwapSelf == Init /\ [][NextSwapSelf]_vars

\* The sequences a vector is built from: at most MaxCount values.
Inputs == UNION {[1..n -> Values] : n \in 0..MaxCount}

\* The process is gone once an operation has faulted.
Crashed == \E v \in Vecs : vec[v].state = "crashed"

\* The constructors that take no other vector.
VecBuildOps(v) ==
    \E al \in Allocs :
        \/ VecCtorDefault(v, al)
        \/ \E count \in 0..MaxCount, value \in Values : VecCtorCountValue(v, count, value, al)
        \/ \E count \in 0..MaxCount, k \in 0..MaxCount : VecCtorCount(v, count, k, al)
        \/ \E elems \in Inputs : VecCtorRange(v, elems, al)
        \/ \E init \in Inputs : VecCtorInitList(v, init, al)

\* The constructors that take another vector.
VecFromOps(v) ==
    \E other \in Vecs :
        \/ VecCtorCopy(v, other)
        \/ VecCtorMove(v, other)
        \/ \E al \in Allocs : VecCtorMoveAlloc(v, other, al)

\* The life of the vectors: construction, indexing, destruction.
NextVec ==
    /\ ~Crashed
    /\ \E v \in Vecs :
        \/ VecBuildOps(v)
        \/ VecFromOps(v)
        \/ \E other \in Vecs, al \in Allocs : VecCtorCopyAlloc(v, other, al)
        \/ \E pos \in 0..MaxCount : VecIndex(v, pos)
        \/ VecDtor(v)
        \/ VecDtorFault(v)

SpecVec == Init /\ [][NextVec]_vars

\* One vector alone: built, indexed, destroyed (TestCountValueConstructor,
\* TestCountConstructor, TestCountConstructorException, TestIterConstructor,
\* TestInitListConstructor).
NextVecOne ==
    /\ ~Crashed
    /\ \/ VecBuildOps(1)
       \/ \E pos \in 0..MaxCount : VecIndex(1, pos)
       \/ VecDtor(1)

SpecVecOne == Init /\ [][NextVecOne]_vars

\* Two vectors, each built from elements or from the other one, and their
\* destruction (TestCopyConstructor, TestMoveConstructor,
\* TestMoveAllocConstructor).
NextVecPair ==
    /\ ~Crashed
    /\ \E v \in Vecs :
        \/ VecBuildOps(v)
        \/ VecFromOps(v)
        \/ VecDtor(v)

SpecVecPair == Init /\ [][NextVecPair]_vars

\* Two vectors built by any constructor, the allocator-extended copy
\* included, and their destruction.
NextVecCtors ==
    /\ ~Crashed
    /\ \E v \in Vecs :
        \/ VecBuildOps(v)
        \/ VecFromOps(v)
        \/ \E other \in Vecs, al \in Allocs : VecCtorCopyAlloc(v, other, al)
        \/ VecDtor(v)
        \/ VecDtorFault(v)

SpecVecCtors == Init /\ [][NextVecCtors]_vars

\* --------------------------------------------------------------- properties
\* Where a thread is while std::swap_ranges runs.
SwapLoop == {"swap_loop", "swap_x", "swap_y"}

\* The threads inside a swap call.
Swapping == {t \in Threads : call[t].op = "swap"}

\* The array whose lock thread t, inside swap, is waiting for; NoArr if none.
WaitsFor(t) ==
    CASE pc[t] = "swap_lock_this" -> SwapFirst(call[t].arr, call[t].other)
      [] pc[t] = "swap_lock_other" -> SwapSecond(call[t].arr, call[t].other)
      [] OTHER -> NoArr

\* t is blocked by another swapping thread that owns the lock t waits for.
BlockedBySwapper(t) ==
    /\ WaitsFor(t) # NoArr
    /\ wlock[WaitsFor(t)] \in Swapping \ {t}

\* C1: concurrent a.swap(b) and b.swap(a) never reach a state in which every
\* swapping thread is blocked on a lock owned by another swapping thread.
SwapDeadlockFree ==
    Swapping # {} => \E t \in Swapping : ~BlockedBySwapper(t)

\* C2: any two swap calls on the same pair of arrays take the two locks in
\* the same order, whichever array is the receiver.
SwapLockOrderCanonical ==
    \A t \in Swapping, u \in Swapping :
        {call[t].arr, call[t].other} = {call[u].arr, call[u].other}
            => SwapFirst(call[t].arr, call[t].other) = SwapFirst(call[u].arr, call[u].other)

\* The threads inside std::fill on array a.
Filling(a) == {t \in Threads : pc[t] = "fill_loop" /\ call[t].arr = a}

Uniform(a, v) == \A i \in Slots : buffer[a][i] = v

\* C3: fill is atomic with respect to other fillers.  Whenever no fill is in
\* progress on an array, every slot holds the same value, a filler's value
\* once a fill has returned; and every slot a running fill(v) has passed
\* holds v, so that a fill(v) about to return has left v in every slot.
FillAtomic ==
    /\ \A a \in Arrays :
          Filling(a) = {} => \E v \in Values \cup {NoVal} : Uniform(a, v)
    /\ \A t \in Threads :
          pc[t] = "fill_loop" =>
              \A i \in Slots : i < idx[t] => buffer[call[t].arr][i] = call[t].val

FillAtomicWitness ==
    \E t \in Threads, u \in Threads :
        /\ t # u
        /\ pc[t] = "fill_loop" /\ idx[t] = size
        /\ pc[u] = "fill_lock"
        /\ call[u].arr = call[t].arr /\ call[u].val # call[t].val
        /\ Uniform(call[t].arr, call[t].val)

\* The threads that are inside a batch of writes to array a: between the
\* construction and the destruction of a unique_lock on a's mutex.
Writers(a) ==
    {t \in Threads :
        \/ pc[t] \in {"set_store", "fill_loop", "write_held", "write_threw"}
              /\ call[t].arr = a
        \/ pc[t] = "swap_lock_other" /\ call[t].arr = a
        \/ pc[t] \in SwapLoop /\ a \in {call[t].arr, call[t].other}}

\* The threads between the construction and the destruction of a shared_lock
\* on a's mutex.
Readers(a) ==
    {t \in Threads :
        pc[t] \in {"at_return", "read_held", "read_threw"} /\ call[t].arr = a}

\* C4: no torn reads.  While a thread holds a scoped_read on an array, no
\* write batch on that array is in progress and every value it has read is
\* still the slot's value: all it reads comes from one fully written state.
NoTornRead ==
    \A t \in Threads :
        pc[t] \in {"read_held", "read_threw"} =>
            /\ Writers(call[t].arr) = {}
            /\ \A i \in Slots :
                  acc[t][i] # NoVal => acc[t][i] = buffer[call[t].arr][i]

NoTornReadWitness ==
    \E t \in Threads, u \in Threads :
        /\ t # u
        /\ pc[t] = "read_held"
        /\ \A i \in Slots : acc[t][i] # NoVal
        /\ buffer[call[t].arr] # Orig(call[t].arr)
        /\ pc[u] \in {"write_lock", "fill_lock", "swap_lock_this", "swap_lock_other"}

\* C5: on every array, at most one thread is inside an exclusive section, and
\* then no thread is inside a shared section; the threads inside the sections
\* are exactly the owners of the array's mutex.
LockExclusion ==
    \A a \in Arrays :
        /\ Cardinality(Writers(a)) <= 1
        /\ Writers(a) # {} => Readers(a) = {}
        /\ Writers(a) = {wlock[a]} \ {NoThread}
        /\ Readers(a) = rlock[a]

LockExclusionWitness ==
    \E a \in Arrays, t \in Threads, u \in Threads :
        /\ t \in Writers(a)
        /\ wlock[a] = t
        /\ pc[u] \in {"read_lock", "at_lock"}
        /\ call[u].arr = a

\* C6: whenever no swap is moving elements, each array holds slot for slot
\* its own constructed contents (an even number of swaps has returned) or the
\* other array's (an odd number).
SwapParity ==
    (\A t \in Threads : pc[t] \notin SwapLoop) =>
        \A a \in Arrays :
            buffer[a] = IF nswaps = 0 THEN Orig(a) ELSE Orig(3 - a)

SwapParityWitness ==
    /\ nswaps = 1
    /\ \A t \in Threads : pc[t] = "idle"
    /\ buffer[1] = Orig(2) /\ buffer[2] = Orig(1)

\* C7: while a thread holds a scoped_write, every slot it wrote through the
\* accessor still reads back, through the accessor, as the value it wrote.
WriteStable ==
    \A t \in Threads :
        pc[t] \in {"write_held", "write_threw"} =>
            \A i \in Slots :
                acc[t][i] # NoVal => ScopedWriteAt(call[t].arr, i) = acc[t][i]

WriteStableWitness ==
    \E t \in Threads, u \in Threads :
        /\ t # u
        /\ pc[t] = "write_held"
        /\ \A i \in Slots : acc[t][i] # NoVal /\ acc[t][i] # Orig(call[t].arr)[i]
        /\ pc[u] \in {"set_lock", "fill_lock", "write_lock", "swap_lock_this",
                      "swap_lock_other"}
        /\ wlock[call[t].arr] = t

\* C8: an at(pos) that directly follows the caller's set(pos, v) on the same
\* array gives v, and the store of set(pos, v) puts v in slot pos and changes
\* no other slot of any array.
SetThenAt ==
    [][\A t \in Threads :
          /\ (pc[t] = "at_deref" /\ pc'[t] = "idle" /\ call[t].val # NoVal)
                => ret'[t] = call[t].val
          /\ (pc[t] = "set_store" /\ pc'[t] = "idle")
                => \A a \in Arrays, i \in Slots :
                      buffer'[a][i] = IF a = call[t].arr /\ i = call[t].pos
                                      THEN call[t].val ELSE buffer[a][i]]_vars

SetThenAtWitness ==
    /\ pc[1] = "at_deref"
    /\ call[1].val # NoVal
    /\ call[1].val # Orig(call[1].arr)[call[1].pos]
    /\ buffer[call[1].arr][call[1].pos] = call[1].val

\* Where a thread is after an access threw std::out_of_range.
Threw == {"threw", "read_threw", "write_threw"}

\* C9: an indexed access with pos >= N, through at, operator[], set or an
\* accessor's at/operator[], throws std::out_of_range and changes no slot.
OutOfRangeThrows ==
    [][\A t \in Threads :
          (call'[t] # call[t] /\ call'[t].pos >= ArrLen)
              => (pc'[t] \in Threw /\ buffer' = buffer)]_vars

OutOfRangeThrowsWitness ==
    \E t \in Threads :
        /\ pc[t] = "write_threw"
        /\ call[t].pos >= ArrLen
        /\ \E i \in Slots : acc[t][i] # NoVal

\* C10: operator[](pos) on a vector with pos >= size() fails with a bounds
\* error, also on an empty vector.
VecIndexChecked ==
    (vret.kind # "none" /\ vret.pos >= VecSize(vret.vec)) => vret.kind = "bounds_error"

\* The threads that hold a scoped_read / scoped_write on array a: from the
\* accessor's construction to its destruction, an out-of-range throw of one
\* of its accesses included.
ReadGuards(a) ==
    {t \in Threads : pc[t] \in {"read_held", "read_threw"} /\ call[t].arr = a}

WriteGuards(a) ==
    {t \in Threads : pc[t] \in {"write_held", "write_threw"} /\ call[t].arr = a}

\* C13: a scoped_read owns its array's mutex in shared mode and a
\* scoped_write owns it exclusively for as long as the accessor exists, also
\* after one of its accesses threw; a thread that is inside no call owns no
\* mutex; and when nobody is inside a locked section of an array, the lock
\* step of every waiting set() and at() on it can be taken.
AccessorHoldsLock ==
    /\ \A a \in Arrays :
          /\ ReadGuards(a) \subseteq rlock[a]
          /\ \A t \in WriteGuards(a) : wlock[a] = t
    /\ \A t \in Threads :
          pc[t] = "idle" => \A a \in Arrays : t \notin rlock[a] /\ wlock[a] # t
    /\ \A t \in Threads :
          /\ (pc[t] = "set_lock" /\ Writers(call[t].arr) \cup Readers(call[t].arr) = {})
                => ENABLED SetLock(t)
          /\ (pc[t] = "at_lock" /\ Writers(call[t].arr) = {})
                => ENABLED AtLock(t)

AccessorHoldsLockWitness ==
    \E t \in Threads, u \in Threads :
        /\ t # u
        /\ pc[t] = "write_threw"
        /\ \E i \in Slots : acc[t][i] # NoVal
        /\ pc[u] \in {"set_lock", "at_lock"}
        /\ call[u].arr = call[t].arr
        /\ pc[u] = "set_lock" => ~ENABLED SetLock(u)
        /\ pc[u] = "at_lock" => ~ENABLED AtLock(u)

\* C14: shared acquisitions compose.  When no thread is inside an exclusive
\* section of an array, the lock step of every waiting scoped_read and at()
\* on it can be taken, whoever else holds the lock in shared mode; and every
\* value a holder of a scoped_read has read is the slot's current value.
SharedCompose ==
    \A t \in Threads :
        /\ (pc[t] = "read_lock" /\ Writers(call[t].arr) = {}) => ENABLED ReadLock(t)
        /\ (pc[t] = "at_lock" /\ Writers(call[t].arr) = {}) => ENABLED AtLock(t)
        /\ pc[t] = "read_held" =>
              \A i \in Slots :
                  acc[t][i] # NoVal => acc[t][i] = buffer[call[t].arr][i]

SharedComposeWitness ==
    \E a \in Arrays :
        /\ Cardinality(ReadGuards(a)) >= 2
        /\ Cardinality(rlock[a]) >= 2
        /\ buffer[a] # Orig(a)
        /\ \A t \in ReadGuards(a) : \A i \in Slots : acc[t][i] = buffer[a][i]

\* C15: the value at(pos) gives its caller is the value the slot held while
\* the caller owned the shared lock.
AtCopiesUnderLock ==
    [][\A t \in Threads :
          (pc[t] = "at_deref" /\ pc'[t] = "idle") => ret'[t] = seen[t]]_vars

RollbackReverse ==
    vexc.kind = "threw" => vexc.destroyed = [i \in 1..vexc.k |-> vexc.k - i]

\* The steps that read vector v's cursors or elements: an operator[] call
\* on it, or a copy or an element-wise move constructed from it.
ReadsVec(v) ==
    \/ vret' # vret /\ vret'.kind # "none" /\ vret'.vec = v
    \/ \E w \in Vecs :
          /\ vec[w].state = "none" /\ vec'[w].state = "live" /\ vec'[w].src = v
          /\ vec'[v] = vec[v]

\* The steps that change the cursors of the existing vector v: a move
\* constructed from it.
MutatesVec(v) ==
    vec[v].state = "live" /\ vec'[v].state = "live" /\ vec'[v] # vec[v]

\* C16: every step that reads a vector's cursors or elements is taken with
\* the vector's mutex_ owned in shared (or exclusive) mode, and every step
\* that changes them with the mutex_ owned exclusively.
VecLockDiscipline ==
    [][\A v \in Vecs :
          /\ ReadsVec(v) => vmutex[v] \in {"shared", "exclusive"}
          /\ MutatesVec(v) => vmutex[v] = "exclusive"]_vars

\* The cells of vector v's block.
Block(v) == {p \in Addrs : vec[v].start # Null /\ p >= vec[v].start /\ p < vec[v].eos}

\* Vector w is constructed in this step by the constructor `how` from v.
Built(w, how, v) ==
    /\ vec[w].state = "none"
    /\ vec'[w].state = "live"
    /\ vec'[w].by = how
    /\ vec'[w].src = v

\* C17: a copy has the source's size and elements, in a block of its own of
\* as many cells as the source has elements; the source's cursors and cells
\* are as before; the copy of an empty vector is empty.
CopyEqualsSource ==
    [][\A w \in Vecs, v \in Vecs :
          Built(w, "copy", v) =>
              /\ VecSize(w)' = VecSize(v)
              /\ Elems(w)' = Elems(v)
              /\ VecCapacity(w)' = VecSize(v)
              /\ \A p \in Block(w)' : heap[p] = Unallocated
              /\ vec'[v] = vec[v]
              /\ \A p \in Block(v) : heap'[p] = heap[p] /\ madeby'[p] = madeby[p]
              /\ VecSize(v) = 0 => VecEmpty(w)']_vars

CopyEqualsSourceWitness ==
    \E w \in Vecs, v \in Vecs :
        /\ vec[w].state = "live" /\ vec[w].by = "copy" /\ vec[w].src = v
        /\ vec[v].state = "live"
        /\ VecSize(v) = MaxCount
        /\ Elems(w) = Elems(v)
        /\ \E i \in 1..VecSize(v) : Elems(v)[i] # Elems(v)[1]
        /\ Block(w) \cap Block(v) = {}

\* The destructor step of vector v: every cell of [start_, end_) holds an
\* element, the block was handed out by v's allocator and has not been
\* released, one destroy call is recorded per element and one deallocate
\* call for the block.
DestroysOnce(v) ==
    LET al == vec[v].alloc IN
    /\ \A p \in vec[v].start..(vec[v].end - 1) : heap[p] \in Values
    /\ \A p \in Block(v) : madeby[p] = al /\ heap'[p] = Unallocated
    /\ astate'[al].destructed = astate[al].destructed + VecSize(v)
    /\ astate'[al].deallocated
          = astate[al].deallocated + (IF vec[v].start # Null THEN 1 ELSE 0)

\* Every allocated cell is in the block of exactly one vector.
OneOwner ==
    \A p \in Addrs :
        heap[p] # Unallocated =>
            Cardinality({v \in Vecs : vec[v].state \in {"live", "crashed"}
                                      /\ p \in Block(v)}) = 1

\* C18: the move constructor gives the new vector the source's cursors and
\* allocator and leaves the source with nullptr cursors, size 0 and capacity
\* 0, with no call to the allocator and no change of the memory; every
\* block then has one owner, and the destructors of the two vectors destroy
\* each element once and release the block once.
MoveSteals ==
    [][/\ \A w \in Vecs, v \in Vecs :
             Built(w, "move", v) =>
                 /\ vec'[w].start = vec[v].start
                 /\ vec'[w].end = vec[v].end
                 /\ vec'[w].eos = vec[v].eos
                 /\ vec'[w].alloc = vec[v].alloc
                 /\ vec'[v].start = Null /\ VecSize(v)' = 0 /\ VecCapacity(v)' = 0
                 /\ VecEmpty(v)'
                 /\ astate' = astate /\ heap' = heap /\ madeby' = madeby
                 /\ OneOwner'
       /\ \A v \in Vecs :
             (vec[v].state = "live" /\ vec[v].by \in {"move", "moved_from"}
                 /\ vec'[v].state = "destroyed")
                 => DestroysOnce(v)]_vars

MoveStealsWitness ==
    \E w \in Vecs, v \in Vecs, al \in Allocs :
        /\ vec[w].state = "destroyed" /\ vec[w].by = "move"
        /\ vec[v].state = "destroyed" /\ vec[v].by = "moved_from"
        /\ astate[al].allocated = 1 /\ astate[al].deallocated = 1
        /\ astate[al].destructed = MaxCount
        /\ \A p \in Addrs : heap[p] = Unallocated

\* C19: the allocator-extended move constructor with an allocator equal to
\* the source's takes the source's cursors and leaves it empty without
\* allocating; with a different allocator it allocates from that allocator
\* as many cells as the source has elements, fills them with the source's
\* elements, and the source keeps its cursors and block.  Either way every
\* block has one owner, and each destructor releases its block through the
\* allocator that handed it out.
MoveAllocOwnership ==
    [][/\ \A w \in Vecs, v \in Vecs :
             Built(w, "move_alloc", v) =>
                 /\ OneOwner'
                 /\ IF vec'[w].alloc = vec[v].alloc
                    THEN /\ vec'[w].start = vec[v].start
                         /\ vec'[w].end = vec[v].end
                         /\ vec'[w].eos = vec[v].eos
                         /\ vec'[v].start = Null /\ VecSize(v)' = 0
                         /\ VecCapacity(v)' = 0
                         /\ astate' = astate /\ heap' = heap /\ madeby' = madeby
                    ELSE /\ VecCapacity(w)' = VecSize(v)
                         /\ Elems(w)' = Elems(v)
                         /\ \A p \in Block(w)' :
                               heap[p] = Unallocated /\ madeby'[p] = vec'[w].alloc
                         /\ astate'[vec'[w].alloc].allocated
                               = astate[vec'[w].alloc].allocated + 1
                         /\ vec'[v].start = vec[v].start
                         /\ vec'[v].end = vec[v].end
                         /\ vec'[v].eos = vec[v].eos
                         /\ vec'[v].alloc = vec[v].alloc
                         /\ \A p \in Block(v) : madeby'[p] = madeby[p]
       /\ \A v \in Vecs :
             (vec[v].state = "live" /\ vec'[v].state = "destroyed"
                 /\ \E u \in Vecs : "move_alloc" \in {vec[v].by, vec[u].by})
                 => DestroysOnce(v)]_vars

MoveAllocOwnershipWitness ==
    \E w \in Vecs, v \in Vecs :
        /\ vec[w].state = "destroyed" /\ vec[w].by = "move_alloc"
        /\ vec[v].state = "destroyed" /\ vec[v].by # "moved_from"
        /\ \A al \in Allocs :
              /\ astate[al].allocated = 1 /\ astate[al].deallocated = 1
              /\ astate[al].destructed = MaxCount
        /\ \A p \in Addrs : heap[p] = Unallocated

\* The constructors that build a vector from n requested elements.
Builders == {"count_value", "count", "range", "init_list"}

\* C20: a vector built from n elements by the count+value, count, range or
\* initializer-list constructor has size() = n, capacity() = n, empty()
\* exactly when n = 0, and operator[](i) gives the i-th requested element
\* for every i < n.
BuiltAsRequested ==
    \A v \in Vecs :
        (vec[v].state = "live" /\ vec[v].by \in Builders) =>
            LET n == Len(vec[v].req) IN
            /\ VecSize(v) = n
            /\ VecCapacity(v) = n
            /\ VecEmpty(v) <=> (n = 0)
            /\ \A i \in 0..(n - 1) :
                  Deref(v, i) = {[kind |-> "value", vec |-> v, pos |-> i,
                                  val |-> vec[v].req[i + 1]]}

BuiltAsRequestedWitness ==
    \E v \in Vecs :
        /\ vec[v].state = "live" /\ vec[v].by = "range"
        /\ Len(vec[v].req) = MaxCount
        /\ \E i \in 1..MaxCount : vec[v].req[i] # vec[v].req[1]
        /\ vret.kind = "value" /\ vret.vec = v /\ vret.pos = MaxCount - 1
        /\ vret.val = vec[v].req[MaxCount]

\* C21: a thread that holds a scoped_read of an array and calls at() or
\* operator[] on that array is not blocked: it never waits for a lock it
\* cannot get.
NestedAtNeverBlocks == \A t \in Threads : pc[t] # "nested_blocked"

\* C29: a.swap(a) terminates and leaves every slot of a as it was: the
\* thread that swaps an array with itself can always take its next step, the
\* process is not terminated, and the array keeps its contents.
SwapSelfTerminates ==
    \A t \in Threads :
        /\ pc[t] # "terminated"
        /\ (call[t].op = "swap" /\ call[t].arr = call[t].other /\ pc[t] = "swap_lock_other")
               => ENABLED SwapLockOther(t)

\* Every thread has made all the calls of its script and is in none.
AllDone == \A t \in Threads : pc[t] = "idle" /\ ncalls[t] = 0

\* C28: threads that each make finitely many at/set/fill calls and
\* scoped_read/scoped_write batches on one array, none starting a locking
\* operation while it holds an accessor: under fair scheduling every call
\* that has begun returns, and once all threads are done the lock has no
\* holder.
ScriptTerminates ==
    /\ \A t \in Threads : (pc[t] # "idle") ~> (pc[t] = "idle")
    /\ [](AllDone => \A a \in Arrays : wlock[a] = NoThread /\ rlock[a] = {})

\* All scripts have run to their end, and a fill has gone through.
ScriptTerminatesWitness ==
    /\ AllDone
    /\ \A i \in Slots : buffer[TheArray][i] = MaxVal
    /\ buffer[TheArray] # Orig(TheArray)

\* No vector is under construction or alive: each has been destroyed, has
\* failed to construct, or was never built.
AllGone == \A v \in Vecs : vec[v].state \in {"none", "destroyed", "failed"}

\* C22: destroy is applied only to slots that hold a constructed element,
\* and every constructed element is destroyed exactly once: when the
\* constructor of cds_vector(count) has thrown at slot k, the slots its
\* rollback destroyed are the constructed slots 0 .. k-1, each once, and the
\* process has not faulted in a destroy.
DestroyOnlyLive ==
    vexc.kind # "none" =>
        /\ vexc.kind = "threw"
        /\ Len(vexc.destroyed) = vexc.k
        /\ {vexc.destroyed[i] : i \in 1..Len(vexc.destroyed)} = 0..(vexc.k - 1)

\* C25: every construction and destruction of an element goes through the
\* allocator: once every vector that was built has been destroyed, each
\* allocator has counted as many construct calls as destroy calls.
ConstructsMatchDestroys ==
    AllGone => \A al \in Allocs : astate[al].constructed = astate[al].destructed

\* C23: every block obtained from the allocator is released exactly once,
\* with the pointer and the count it was obtained with: while vectors live,
\* each allocated cell lies in the block of exactly one of them, and that
\* block came from the vector's allocator; when all are gone, every
\* allocator has seen as many deallocate calls as allocate calls and no
\* cell is left allocated.
BlocksReleasedOnce ==
    /\ OneOwner
    /\ \A v \in Vecs :
          vec[v].state = "live" =>
              \A p \in Block(v) : heap[p] # Unallocated /\ madeby[p] = vec[v].alloc
    /\ AllGone =>
          /\ \A al \in Allocs : astate[al].allocated = astate[al].deallocated
          /\ \A p \in Addrs : heap[p] = Unallocated

\* C24: for every vector that exists, start_ <= end_ <= end_of_storage_;
\* the three cursors are all nullptr, or lie within or one past a block
\* that was allocated for the vector; the cells of [start_, end_) hold
\* elements and the cells of [end_, end_of_storage_) are raw.
CursorsWellFormed ==
    \A v \in Vecs :
        vec[v].state = "live" =>
            /\ vec[v].start <= vec[v].end
            /\ vec[v].end <= vec[v].eos
            /\ vec[v].start = Null => vec[v].end = Null /\ vec[v].eos = Null
            /\ \A p \in Block(v) :
                  /\ madeby[p] = vec[v].alloc
                  /\ heap[p] # Unallocated
                  /\ p < vec[v].end => heap[p] \in Values
                  /\ p >= vec[v].end => heap[p] = Raw
                  /\ \A w \in Vecs \ {v} : vec[w].state = "live" => p \notin Block(w)

\* C26: cds_vector(other, alloc) gives a vector whose start_ is the block
\* obtained from alloc, with the size and the elements of `other`, and
\* leaves `other` as it was.
CopyAllocEqualsSource ==
    [][\A w \in Vecs, v \in Vecs, al \in Allocs :
          VecCtorCopyAlloc(w, v, al) =>
              /\ vec'[w].state = "live"
              /\ vec'[w].alloc = al
              /\ vec'[w].start = Allocate(vec[v].eos - vec[v].start)
              /\ VecSize(w)' = VecSize(v)
              /\ Elems(w)' = Elems(v)
              /\ vec'[v] = vec[v]
              /\ Elems(v)' = Elems(v)]_vars

\* C27: the destructor destroys the elements of [start_, end_) in increasing
\* index order, each once, and releases the allocation only after the last
\* destroy; a vector with no allocation (default-constructed or moved-from)
\* makes no destroy and no deallocate call.
DtorInOrder ==
    vdtor.vec # 0 =>
        LET c == vdtor.calls
            D == {i \in 1..Len(c) : c[i].op = "destroy"}
            R == {i \in 1..Len(c) : c[i].op = "deallocate"}
        IN  /\ {c[i].at : i \in D} = vdtor.start..(vdtor.end - 1)
            /\ \A i \in D, j \in D : i < j => c[i].at < c[j].at
            /\ \A i \in R : /\ i = Len(c)
                            /\ c[i].at = vdtor.start
                            /\ c[i].n = vdtor.eos - vdtor.start
            /\ Cardinality(R) = IF vdtor.start # Null THEN 1 ELSE 0
            /\ vdtor.start = Null => c = <<>>

\* A vector of MaxCount elements has been destroyed, and so has a
\* moved-from one.
DtorInOrderWitness ==
    /\ vdtor.vec # 0
    /\ vdtor.start = Null
    /\ \E v \in Vecs : vec[v].state = "destroyed" /\ vec[v].by = "moved_from"
    /\ \E al \in Allocs : astate[al].destructed = MaxCount /\ astate[al].deallocated = 1

\* C30: every vector produced by any sequence of constructors, copies and
\* moves included, has size() equal to capacity().
SizeIsCapacity ==
    \A v \in Vecs : vec[v].state = "live" => VecSize(v) = VecCapacity(v)

\* Two live vectors that hold elements, the second one made from the first
\* by a copy or by an allocator-extended move.
SizeIsCapacityWitness ==
    \E v \in Vecs, w \in Vecs :
        /\ vec[v].state = "live" /\ vec[w].state = "live"
        /\ vec[w].src = v
        /\ vec[w].by \in {"copy", "move_alloc"}
        /\ VecSize(v) = MaxCount
        /\ VecSize(w) = MaxCount

====
